---------------------------- MODULE Spec2Model ----------------------------
(***************************************************************************)
(* alfresco/lists/KeyboardNavigationSuppressionMixin                       *)
(*                                                                         *)
(* A small page of widgets that all mix the module in: two nested          *)
(* containers, a sibling container and two inline editors.  Every handler  *)
(* of the mixin is one action; the handler bodies are operators over a     *)
(* call context (the instance fields, the event object, the calls made so  *)
(* far) so that the order of the statements inside a handler is kept.      *)
(***************************************************************************)
EXTENDS Integers, Sequences, FiniteSets, TLC

(***************************************************************************)
(* JavaScript values.  A value is its type tag and its printed form, so    *)
(* that the boolean true, the string "true" and the number 1 are three     *)
(* different values and === is equality of the pair.                       *)
(***************************************************************************)
JSVal(t, v) == [type |-> t, val |-> v]
JSTrue == JSVal("boolean", "true")
JSFalse == JSVal("boolean", "false")
Undefined == JSVal("undefined", "undefined")
Null == JSVal("null", "null")
Num(n) == JSVal("number", n)
Str(s) == JSVal("string", s)
Function == JSVal("function", "function")

\* a === b
StrictEq(a, b) == a = b

\* the boolean a === b as a JavaScript value
JSBool(b) == IF b THEN JSTrue ELSE JSFalse

\* typeof a
typeof(a) == IF a.type = "null" THEN "object" ELSE a.type

\* dojo/keys
ESCAPE == Num("27")
ENTER == Num("13")
TAB == Num("9")
DOWN_ARROW == Num("40")

(***************************************************************************)
(* The page.  Each widget has one root node, named like the widget.        *)
(***************************************************************************)
Containers == {"outer", "inner", "sibling"}
Editors == {"editorA", "editorB"}
Widgets == Containers \cup Editors
NoNode == "none"

\* parentNode of a widget's root node
parentNode(n) ==
    CASE n = "outer" -> NoNode
      [] n = "inner" -> "outer"
      [] n = "sibling" -> "outer"
      [] n = "editorA" -> "inner"
      [] n = "editorB" -> "inner"
      [] OTHER -> NoNode

\* this.domNode
domNode(self) == self

\* the widgets whose root node carries a listener for onSuppressKeyNavigation
Listeners == Containers

\* this[name] for the optional callbacks the owning widget may supply
Member(self, name) ==
    CASE self = "editorA" -> Function
      [] self = "editorB" -> Undefined
      [] self = "inner" -> IF name = "onEditClick" THEN Str("edit") ELSE Function
      [] self = "sibling" -> IF name = "onEditClick" THEN Function ELSE Null
      [] OTHER -> Undefined

\* the widgets whose template connects the key and click handlers
Handled == Editors \cup {"inner"}

(***************************************************************************)
(* Bounds                                                                  *)
(***************************************************************************)
MaxDispatch == 2

(***************************************************************************)
(* Event objects                                                           *)
(***************************************************************************)
NoEvent ==
    [kind |-> "none", ctrlKey |-> Undefined, charCode |-> Undefined,
     shiftKey |-> Undefined, altKey |-> Undefined, metaKey |-> Undefined,
     charOrCode |-> Undefined, keyCode |-> Undefined, suppress |-> Undefined,
     bubbles |-> Undefined, cancelable |-> Undefined, target |-> NoNode,
     stopped |-> FALSE, prevented |-> FALSE]

VARIABLES
    suppressKeyNavigation,  \* [Widgets -> JS value]: the instance field
    navCalls,               \* calls of the inherited navigation handler, over all containers
    dispatched,             \* [whileFalse, whileTrue]: container key events seen, by the receiver's flag at dispatch
    outstanding,            \* the editors whose latest request asked for suppression
    op,                     \* the handler that ran last
    args,                   \* the arguments it was called with, besides the event
    self,                   \* the widget it ran on
    evt,                    \* the event object it was given, as the handler left it
    log                     \* the calls the handler made, in order

vars == <<suppressKeyNavigation, navCalls, dispatched, outstanding, op, args, self, evt, log>>


(***************************************************************************)
(* The call context of a running handler: the instance fields it can       *)
(* write, the event object it holds and the calls it has made.             *)
(***************************************************************************)
Ctx(e) == [skn |-> suppressKeyNavigation, nav |-> navCalls, evt |-> e, log |-> <<>>]

\* a call of an external collaborator, recorded with the state of the event at the call
Call(c, name, on) ==
    [c EXCEPT !.log = Append(@, [call |-> name, on |-> on, stopped |-> c.evt.stopped])]

\* JavaScript truthiness of an event argument
Truthy(e) == e.kind # "none"

\* dojo/_base/event stop(evt): preventDefault and stopPropagation
event_stop(c, on) ==
    [Call(c, "event.stop", on) EXCEPT !.evt.stopped = TRUE, !.evt.prevented = TRUE]

\* evt && event.stop(evt)
guarded_stop(c, on) == IF Truthy(c.evt) THEN event_stop(c, on) ELSE c

\* the callback called whenever the member is set, function or not
call_if_function_anySet(c, this, name) ==
    IF Member(this, name) \notin {Undefined, Null} THEN Call(c, name, this) ELSE c

\* if (typeof this[name] === "function") { this[name](); }
call_if_function(c, this, name) ==
    IF typeof(Member(this, name)) = "function" THEN Call(c, name, this) ELSE c

\* onKeyPress taking the chord only when shift is not held
onKeyPress_plainChordOnly(this, c) ==
    IF StrictEq(c.evt.ctrlKey, JSTrue) /\ StrictEq(c.evt.charCode, Num("101"))
       /\ ~StrictEq(c.evt.shiftKey, JSTrue)
    THEN call_if_function(guarded_stop(c, this), this, "onEditClick")
    ELSE c

\* onKeyPress taking any 'e', with the control key or without
onKeyPress_anyE(this, c) ==
    IF StrictEq(c.evt.charCode, Num("101"))
    THEN call_if_function(guarded_stop(c, this), this, "onEditClick")
    ELSE c

onKeyPress(this, c) ==
    IF StrictEq(c.evt.ctrlKey, JSTrue) /\ StrictEq(c.evt.charCode, Num("101"))
    THEN call_if_function(guarded_stop(c, this), this, "onEditClick")
    ELSE c

\* onValueEntryKeyPress testing for Enter before Escape
onValueEntryKeyPress_enterFirst(this, c) ==
    IF StrictEq(c.evt.charOrCode, ENTER) \/ StrictEq(c.evt.keyCode, ENTER)
    THEN call_if_function(event_stop(c, this), this, "onSave")
    ELSE IF StrictEq(c.evt.charOrCode, ESCAPE) \/ StrictEq(c.evt.keyCode, ESCAPE)
         THEN call_if_function(event_stop(c, this), this, "onCancel")
         ELSE c

\* onValueEntryKeyPress calling back before it stops the event
onValueEntryKeyPress_callFirst(this, c) ==
    IF StrictEq(c.evt.charOrCode, ESCAPE) \/ StrictEq(c.evt.keyCode, ESCAPE)
    THEN event_stop(call_if_function(c, this, "onCancel"), this)
    ELSE IF StrictEq(c.evt.charOrCode, ENTER) \/ StrictEq(c.evt.keyCode, ENTER)
         THEN event_stop(call_if_function(c, this, "onSave"), this)
         ELSE c

onValueEntryKeyPress(this, c) ==
    IF StrictEq(c.evt.charOrCode, ESCAPE) \/ StrictEq(c.evt.keyCode, ESCAPE)
    THEN call_if_function(event_stop(c, this), this, "onCancel")
    ELSE IF StrictEq(c.evt.charOrCode, ENTER) \/ StrictEq(c.evt.keyCode, ENTER)
         THEN call_if_function(event_stop(c, this), this, "onSave")
         ELSE c

\* suppressFocusRequest stopping clicks only while navigation is not suppressed
suppressFocusRequest_gated(this, c) ==
    IF StrictEq(c.skn[this], JSFalse) THEN guarded_stop(c, this) ELSE c

suppressFocusRequest(this, c) == guarded_stop(c, this)

\* onSuppressKeyNavigation storing the payload as it comes
onSuppressKeyNavigation_uncoerced(this, c) ==
    [Call(c, "onSuppressKeyNavigation", this) EXCEPT !.skn[this] = c.evt.suppress]

\* onSuppressKeyNavigation coercing the payload by truthiness, as !!evt.suppress
onSuppressKeyNavigation_truthy(this, c) ==
    [Call(c, "onSuppressKeyNavigation", this)
        EXCEPT !.skn[this] = JSBool(c.evt.suppress \notin {JSFalse, Undefined, Null})]

\* onSuppressKeyNavigation writing the flag all instances share
onSuppressKeyNavigation_shared(this, c) ==
    [Call(c, "onSuppressKeyNavigation", this)
        EXCEPT !.skn = [w \in DOMAIN @ |-> JSBool(StrictEq(c.evt.suppress, JSTrue))]]

\* onSuppressKeyNavigation consuming the notice it has handled
onSuppressKeyNavigation_stopping(this, c) ==
    event_stop([Call(c, "onSuppressKeyNavigation", this)
                   EXCEPT !.skn[this] = JSBool(StrictEq(c.evt.suppress, JSTrue))],
               this)

\* onSuppressKeyNavigation that stays suppressed once suppressed
onSuppressKeyNavigation_sticky(this, c) ==
    [Call(c, "onSuppressKeyNavigation", this)
        EXCEPT !.skn[this] = JSBool(StrictEq(@, JSTrue) \/ StrictEq(c.evt.suppress, JSTrue))]

onSuppressKeyNavigation(this, c) ==
    [Call(c, "onSuppressKeyNavigation", this)
        EXCEPT !.skn[this] = JSBool(StrictEq(c.evt.suppress, JSTrue))]

\* this.inherited(arguments): the handler of dijit/_KeyNavContainer
inherited(this, c, name) ==
    [Call(c, name, this) EXCEPT !.nav = @ + 1]

\* _onContainerKeypress clearing the flag once it has swallowed an event
_onContainerKeypress_resetting(this, c) ==
    IF StrictEq(c.skn[this], JSFalse)
    THEN inherited(this, c, "inherited _onContainerKeypress")
    ELSE [c EXCEPT !.skn[this] = JSFalse]

_onContainerKeypress(this, c) ==
    IF StrictEq(c.skn[this], JSFalse)
    THEN inherited(this, c, "inherited _onContainerKeypress")
    ELSE c

\* _onContainerKeydown without the gate
_onContainerKeydown_ungated(this, c) ==
    inherited(this, c, "inherited _onContainerKeydown")

_onContainerKeydown(this, c) ==
    IF StrictEq(c.skn[this], JSFalse)
    THEN inherited(this, c, "inherited _onContainerKeydown")
    ELSE c

(***************************************************************************)
(* dojo/on emit: the event is dispatched at the target and, when it        *)
(* bubbles, at each ancestor in turn, until a listener stops it.  The      *)
(* listener of a container is its onSuppressKeyNavigation.                 *)
(***************************************************************************)
RECURSIVE bubble(_, _)
bubble(c, n) ==
    IF n = NoNode
    THEN c
    ELSE LET c1 == IF n \in Listeners THEN onSuppressKeyNavigation(n, c) ELSE c
         IN IF StrictEq(c1.evt.bubbles, JSTrue) /\ ~c1.evt.stopped
            THEN bubble(c1, parentNode(n))
            ELSE c1

on_emit(c, target, type, e) ==
    bubble(Call([c EXCEPT !.evt = [e EXCEPT !.kind = type, !.target = target]],
                "on.emit", target),
           target)

\* suppressContainerKeyboardNavigation always emitting at the widget's own root node
suppressContainerKeyboardNavigation_ownNode(this, c, suppress, node) ==
    on_emit(c, domNode(this), "onSuppressKeyNavigation",
            [NoEvent EXCEPT !.bubbles = JSTrue, !.cancelable = JSTrue, !.suppress = suppress])

suppressContainerKeyboardNavigation(this, c, suppress, node) ==
    on_emit(c, IF node # NoNode THEN node ELSE domNode(this), "onSuppressKeyNavigation",
            [NoEvent EXCEPT !.bubbles = JSTrue, !.cancelable = JSTrue, !.suppress = suppress])

(***************************************************************************)
(* Inputs                                                                  *)
(***************************************************************************)
\* shiftKey, altKey, metaKey of a key event
Modifiers == { <<JSFalse, JSFalse, JSFalse>>, <<JSTrue, JSFalse, JSTrue>> }

KeyPressEvents ==
    { [NoEvent EXCEPT !.kind = "keypress", !.ctrlKey = ck, !.charCode = cc,
                      !.shiftKey = m[1], !.altKey = m[2], !.metaKey = m[3]] :
        ck \in {JSTrue, JSFalse, Undefined},
        cc \in {Num("101"), Num("69"), Undefined},
        m \in Modifiers }

ValueEntryEvents ==
    { [NoEvent EXCEPT !.kind = "keypress", !.charOrCode = coc, !.keyCode = kc] :
        coc \in {ESCAPE, ENTER, Str("a")},
        kc \in {ESCAPE, ENTER, TAB, Undefined} }

ClickEvents == { [NoEvent EXCEPT !.kind = "click"], NoEvent }

ContainerKeyEvents ==
    { [NoEvent EXCEPT !.kind = "keydown", !.keyCode = kc] : kc \in {DOWN_ARROW} }

SuppressValues == {JSTrue, JSFalse, Undefined, Null, Num("1"), Str("true")}

NoticeEvents ==
    { [NoEvent EXCEPT !.kind = "onSuppressKeyNavigation", !.suppress = s,
                      !.bubbles = JSTrue, !.cancelable = JSTrue] : s \in SuppressValues }

RequestValues == {JSTrue, JSFalse, Str("true")}

TotalDispatched == dispatched.whileFalse + dispatched.whileTrue

(***************************************************************************)
(* Actions: one per handler.  Commit writes back what the handler left.    *)
(***************************************************************************)
NoArgs == [suppress |-> Undefined, node |-> NoNode]

Commit(c, name, this) ==
    /\ suppressKeyNavigation' = c.skn
    /\ navCalls' = c.nav
    /\ evt' = c.evt
    /\ log' = c.log
    /\ op' = name
    /\ self' = this

Init ==
    /\ suppressKeyNavigation = [w \in Widgets |-> JSFalse]
    /\ navCalls = 0
    /\ dispatched = [whileFalse |-> 0, whileTrue |-> 0]
    /\ outstanding = {}
    /\ op = "new"
    /\ args = NoArgs
    /\ self = NoNode
    /\ evt = NoEvent
    /\ log = <<>>

OnKeyPress ==
    \E this \in Handled, e \in KeyPressEvents :
        /\ Commit(onKeyPress(this, Ctx(e)), "onKeyPress", this)
        /\ args' = NoArgs
        /\ UNCHANGED <<dispatched, outstanding>>

OnValueEntryKeyPress ==
    \E this \in Handled, e \in ValueEntryEvents :
        /\ Commit(onValueEntryKeyPress(this, Ctx(e)), "onValueEntryKeyPress", this)
        /\ args' = NoArgs
        /\ UNCHANGED <<dispatched, outstanding>>

SuppressFocusRequest ==
    \E this \in Handled, e \in ClickEvents :
        /\ Commit(suppressFocusRequest(this, Ctx(e)), "suppressFocusRequest", this)
        /\ args' = NoArgs
        /\ UNCHANGED <<dispatched, outstanding>>

OnSuppressKeyNavigation ==
    \E this \in Listeners, e \in NoticeEvents :
        /\ Commit(onSuppressKeyNavigation(this, Ctx(e)), "onSuppressKeyNavigation", this)
        /\ args' = NoArgs
        /\ UNCHANGED <<dispatched, outstanding>>

SuppressContainerKeyboardNavigation ==
    \E this \in Editors, suppress \in RequestValues, node \in Widgets \cup {NoNode} :
        /\ Commit(suppressContainerKeyboardNavigation(this, Ctx(NoEvent), suppress, node),
                  "suppressContainerKeyboardNavigation", this)
        /\ outstanding' = IF StrictEq(suppress, JSTrue)
                          THEN outstanding \cup {this}
                          ELSE outstanding \ {this}
        /\ args' = [suppress |-> suppress, node |-> node]
        /\ UNCHANGED dispatched

Seen(this) ==
    IF StrictEq(suppressKeyNavigation[this], JSFalse)
    THEN [dispatched EXCEPT !.whileFalse = @ + 1]
    ELSE [dispatched EXCEPT !.whileTrue = @ + 1]

OnContainerKeypress ==
    \E this \in Containers, e \in ContainerKeyEvents :
        /\ TotalDispatched < MaxDispatch
        /\ Commit(_onContainerKeypress(this, Ctx([e EXCEPT !.kind = "keypress"])),
                  "_onContainerKeypress", this)
        /\ dispatched' = Seen(this)
        /\ args' = NoArgs
        /\ UNCHANGED outstanding

OnContainerKeydown ==
    \E this \in Containers, e \in ContainerKeyEvents :
        /\ TotalDispatched < MaxDispatch
        /\ Commit(_onContainerKeydown(this, Ctx(e)), "_onContainerKeydown", this)
        /\ dispatched' = Seen(this)
        /\ args' = NoArgs
        /\ UNCHANGED outstanding

Next ==
    \/ OnKeyPress
    \/ OnValueEntryKeyPress
    \/ SuppressFocusRequest
    \/ OnSuppressKeyNavigation
    \/ SuppressContainerKeyboardNavigation
    \/ OnContainerKeypress
    \/ OnContainerKeydown

Spec == Init /\ [][Next]_vars

(***************************************************************************)
(* Helpers of the properties                                               *)
(***************************************************************************)
CallbackNames == {"onEditClick", "onCancel", "onSave"}
DispatchOps == {"_onContainerKeypress", "_onContainerKeydown"}

\* the positions of the calls of name in a log
Calls(l, name) == { i \in 1..Len(l) : l[i].call = name }

\* the positions of the calls of any callback in a log
CallbackCalls(l) == { i \in 1..Len(l) : l[i].call \in CallbackNames }

Registered(w, name) == typeof(Member(w, name)) = "function"

IsChord(e) == e.ctrlKey = JSTrue /\ e.charCode = Num("101")

RECURSIVE AncestorsOrSelf(_)
AncestorsOrSelf(n) == IF n = NoNode THEN {} ELSE {n} \cup AncestorsOrSelf(parentNode(n))

\* the last handler forwarded its event to the inherited navigation handler
Forwarded == Len(log) = 1 /\ log[1].call = "inherited " \o op /\ log[1].on = self

(***************************************************************************)
(* C1: a container key event is forwarded to the inherited navigation      *)
(* handler if and only if the receiver's suppressKeyNavigation is false    *)
(* when it is dispatched; the handler has been called as often as key      *)
(* events were dispatched while the flag was false, and never for an       *)
(* event dispatched while it was true.                                     *)
(***************************************************************************)
C1_ForwardIffNavigable ==
    /\ navCalls = dispatched.whileFalse
    /\ op \in DispatchOps =>
         /\ Forwarded <=> suppressKeyNavigation[self] = JSFalse
         /\ ~Forwarded => log = <<>>

C1_Witness ==
    /\ op = "_onContainerKeydown"
    /\ Forwarded
    /\ dispatched.whileTrue = 1
    /\ dispatched.whileFalse = 1
    /\ navCalls = 1

(***************************************************************************)
(* C2: after a call of onSuppressKeyNavigation the flag of the receiver is *)
(* the boolean (suppress === true) of that call, whatever it was before;   *)
(* a second call with the same event leaves every flag as the first left   *)
(* it.                                                                     *)
(***************************************************************************)
C2_LastNoticeWins ==
    [][ /\ op' = "onSuppressKeyNavigation" =>
             suppressKeyNavigation'[self'] = JSBool(evt'.suppress = JSTrue)
        /\ (op = "onSuppressKeyNavigation" /\ op' = op /\ self' = self /\ evt' = evt) =>
             suppressKeyNavigation' = suppressKeyNavigation ]_vars

C2_Witness ==
    /\ op = "onSuppressKeyNavigation"
    /\ evt.suppress = Str("true")
    /\ self = "inner"
    /\ suppressKeyNavigation["inner"] = JSFalse
    /\ suppressKeyNavigation["outer"] = JSTrue

(***************************************************************************)
(* C3: the flag is a gate, not a count of requests: when one editor sends  *)
(* an un-suppress request while another editor's suppression request is    *)
(* still outstanding, every listening container the request reaches has    *)
(* its flag false at once and forwards the next key event.                 *)
(***************************************************************************)
C3_AnyReleaseReenables ==
    ( /\ op = "suppressContainerKeyboardNavigation"
      /\ args.suppress = JSFalse
      /\ outstanding \ {self} # {} ) =>
        \A w \in Listeners \cap AncestorsOrSelf(evt.target) :
            /\ suppressKeyNavigation[w] = JSFalse
            /\ \A e \in ContainerKeyEvents :
                 /\ _onContainerKeydown(w, Ctx(e)).nav = navCalls + 1
                 /\ _onContainerKeypress(w, Ctx(e)).nav = navCalls + 1

C3_Witness ==
    /\ op = "suppressContainerKeyboardNavigation"
    /\ self = "editorA"
    /\ args = [suppress |-> JSFalse, node |-> NoNode]
    /\ outstanding = {"editorB"}
    /\ suppressKeyNavigation["inner"] = JSFalse
    /\ suppressKeyNavigation["outer"] = JSFalse

(***************************************************************************)
(* C4: onKeyPress on an event with ctrlKey === true and charCode === 101   *)
(* stops the event and calls the registered onEditClick exactly once,      *)
(* whatever shiftKey, altKey and metaKey are.                              *)
(***************************************************************************)
C4_ChordStopsAndEdits ==
    (op = "onKeyPress" /\ IsChord(evt)) =>
        /\ evt.stopped
        /\ Cardinality(Calls(log, "event.stop")) = 1
        /\ Registered(self, "onEditClick") =>
             /\ Cardinality(Calls(log, "onEditClick")) = 1
             /\ \A i \in Calls(log, "onEditClick") : log[i].on = self

C4_Witness ==
    /\ op = "onKeyPress"
    /\ IsChord(evt)
    /\ evt.shiftKey = JSTrue
    /\ evt.metaKey = JSTrue
    /\ self = "editorA"
    /\ evt.stopped
    /\ Cardinality(Calls(log, "onEditClick")) = 1

(***************************************************************************)
(* C5: onKeyPress on an event that is not the chord (ctrlKey not true or   *)
(* charCode not 101, a missing field included) stops nothing, calls        *)
(* nothing and leaves every suppression flag as it was.                    *)
(***************************************************************************)
C5_OtherKeysIgnored ==
    [][ (op' = "onKeyPress" /\ ~IsChord(evt')) =>
          /\ ~evt'.stopped
          /\ ~evt'.prevented
          /\ log' = <<>>
          /\ suppressKeyNavigation' = suppressKeyNavigation ]_vars

C5_Witness ==
    /\ op = "onKeyPress"
    /\ evt.ctrlKey = Undefined
    /\ evt.charCode = Num("101")
    /\ self = "inner"
    /\ suppressKeyNavigation["inner"] = JSTrue
    /\ ~evt.stopped
    /\ log = <<>>

IsEscape(e) == e.charOrCode = ESCAPE \/ e.keyCode = ESCAPE
IsEnter(e) == e.charOrCode = ENTER \/ e.keyCode = ENTER

\* the callbacks a log calls, in order
RECURSIVE CallbacksOf(_)
CallbacksOf(l) ==
    IF l = <<>> THEN <<>>
    ELSE (IF Head(l).call \in CallbackNames THEN <<Head(l).call>> ELSE <<>>)
         \o CallbacksOf(Tail(l))

\* what a handler may call for a matching key: name, once, if it is registered
OnlyCallback(w, name) == IF Registered(w, name) THEN <<name>> ELSE <<>>

(***************************************************************************)
(* C6: onValueEntryKeyPress calls at most one of onCancel and onSave: on   *)
(* Escape it stops the event and calls onCancel only, on Enter it stops    *)
(* the event and calls onSave only, on any other key it stops nothing and  *)
(* calls neither; when charOrCode and keyCode disagree between Escape and  *)
(* Enter, Escape wins.                                                     *)
(***************************************************************************)
C6_EscapeCancelsEnterSaves ==
    op = "onValueEntryKeyPress" =>
        /\ Len(CallbacksOf(log)) <= 1
        /\ IsEscape(evt) =>
             evt.stopped /\ CallbacksOf(log) = OnlyCallback(self, "onCancel")
        /\ (IsEnter(evt) /\ ~IsEscape(evt)) =>
             evt.stopped /\ CallbacksOf(log) = OnlyCallback(self, "onSave")
        /\ (~IsEnter(evt) /\ ~IsEscape(evt)) =>
             ~evt.stopped /\ log = <<>>

C6_Witness ==
    /\ op = "onValueEntryKeyPress"
    /\ self = "editorA"
    /\ evt.charOrCode = ENTER
    /\ evt.keyCode = ESCAPE
    /\ evt.stopped
    /\ CallbacksOf(log) = <<"onCancel">>

(***************************************************************************)
(* C7: in onKeyPress and onValueEntryKeyPress a callback is called only    *)
(* after the event's propagation has been stopped: the event is already    *)
(* stopped when onEditClick, onCancel or onSave starts.                    *)
(***************************************************************************)
C7_StopBeforeCallback ==
    op \in {"onKeyPress", "onValueEntryKeyPress"} =>
        \A i \in CallbackCalls(log) :
            /\ log[i].stopped
            /\ \E j \in 1..(i - 1) : log[j].call = "event.stop"

C7_Witness ==
    /\ op = "onValueEntryKeyPress"
    /\ self = "inner"
    /\ Len(log) = 2
    /\ log[1].call = "event.stop"
    /\ log[2].call = "onSave"
    /\ log[2].stopped

(***************************************************************************)
(* C8: suppressFocusRequest stops every click event it is given, with the  *)
(* receiver's flag true or false alike, calls no callback and changes no   *)
(* state.                                                                  *)
(***************************************************************************)
C8_ClickAlwaysStopped ==
    [][ (op' = "suppressFocusRequest" /\ evt'.kind = "click") =>
          /\ evt'.stopped
          /\ CallbackCalls(log') = {}
          /\ suppressKeyNavigation' = suppressKeyNavigation
          /\ navCalls' = navCalls ]_vars

C8_Witness ==
    /\ op = "suppressFocusRequest"
    /\ evt.kind = "click"
    /\ self = "inner"
    /\ suppressKeyNavigation["inner"] = JSTrue
    /\ evt.stopped

(***************************************************************************)
(* C9: every widget starts with suppressKeyNavigation false; a flag        *)
(* changes only in a step that calls onSuppressKeyNavigation on its        *)
(* widget, so onKeyPress, onValueEntryKeyPress, suppressFocusRequest,      *)
(* _onContainerKeypress and _onContainerKeydown leave every flag as it     *)
(* was; and what every handler but these last two does (to the event, to   *)
(* the flags it writes, in the calls it makes) is the same whatever the    *)
(* flags were.                                                             *)
(***************************************************************************)
Inverted == [w \in Widgets |-> JSBool(suppressKeyNavigation[w] = JSFalse)]

\* the event as it was handed to the last handler
Given(e) == [e EXCEPT !.stopped = FALSE, !.prevented = FALSE]

\* the last handler run again on the same event with every flag inverted
Rerun(name, this, e) ==
    LET c == [Ctx(Given(e)) EXCEPT !.skn = Inverted]
    IN CASE name = "onKeyPress" -> onKeyPress(this, c)
         [] name = "onValueEntryKeyPress" -> onValueEntryKeyPress(this, c)
         [] name = "suppressFocusRequest" -> suppressFocusRequest(this, c)
         [] name = "onSuppressKeyNavigation" -> onSuppressKeyNavigation(this, c)
         [] name = "suppressContainerKeyboardNavigation" ->
                suppressContainerKeyboardNavigation(
                    this, [c EXCEPT !.evt = NoEvent], args.suppress, args.node)

\* the handlers that are to work without reading the flag
Blind == {"onKeyPress", "onValueEntryKeyPress", "suppressFocusRequest",
          "onSuppressKeyNavigation", "suppressContainerKeyboardNavigation"}

C9_OnlyNoticesChangeTheFlag ==
    /\ [] /\ op = "new" => \A w \in Widgets : suppressKeyNavigation[w] = JSFalse
          /\ op \in Blind =>
               LET r == Rerun(op, self, evt)
               IN /\ r.evt = evt
                  /\ r.log = log
                  /\ \A i \in Calls(log, "onSuppressKeyNavigation") :
                       r.skn[log[i].on] = suppressKeyNavigation[log[i].on]
    /\ [][ /\ suppressKeyNavigation' # suppressKeyNavigation =>
                \A w \in Widgets :
                    suppressKeyNavigation'[w] # suppressKeyNavigation[w] =>
                        \E i \in Calls(log', "onSuppressKeyNavigation") : log'[i].on = w
           /\ op' \in {"onKeyPress", "onValueEntryKeyPress", "suppressFocusRequest"}
                   \cup DispatchOps =>
                /\ suppressKeyNavigation' = suppressKeyNavigation
                /\ Calls(log', "onSuppressKeyNavigation") = {} ]_vars

C9_Witness ==
    /\ op = "_onContainerKeypress"
    /\ self = "inner"
    /\ suppressKeyNavigation["inner"] = JSTrue
    /\ suppressKeyNavigation["outer"] = JSFalse
    /\ log = <<>>

(***************************************************************************)
(* C10: suppressContainerKeyboardNavigation(suppress, node) emits one      *)
(* onSuppressKeyNavigation event that carries suppress, bubbles and is     *)
(* cancelable, at node or, without a node, at the widget's own root node;  *)
(* once delivered, every listening container at or above that node has     *)
(* its flag equal to (suppress === true).                                  *)
(***************************************************************************)
StartNode == IF args.node = NoNode THEN domNode(self) ELSE args.node

C10_RequestReachesAncestors ==
    op = "suppressContainerKeyboardNavigation" =>
        /\ Calls(log, "on.emit") = {1}
        /\ log[1].on = StartNode
        /\ evt.kind = "onSuppressKeyNavigation"
        /\ evt.target = StartNode
        /\ evt.suppress = args.suppress
        /\ evt.bubbles = JSTrue
        /\ evt.cancelable = JSTrue
        /\ \A w \in Listeners \cap AncestorsOrSelf(StartNode) :
             suppressKeyNavigation[w] = JSBool(args.suppress = JSTrue)

C10_Witness ==
    /\ op = "suppressContainerKeyboardNavigation"
    /\ self = "editorA"
    /\ args = [suppress |-> JSTrue, node |-> "sibling"]
    /\ suppressKeyNavigation["sibling"] = JSTrue
    /\ suppressKeyNavigation["outer"] = JSTrue
    /\ suppressKeyNavigation["inner"] = JSFalse

(***************************************************************************)
(* C11: a notice whose suppress is anything but the boolean true (false,   *)
(* missing, null, a number, the string "true") sets the receiver's flag to *)
(* false and does nothing else; every flag is a boolean in every reachable *)
(* state, so a container whose flag is not true forwards its key events:   *)
(* the === false test of the dispatch handlers never fails on a flag that  *)
(* is neither true nor false.                                              *)
(***************************************************************************)
C11_FlagAlwaysBoolean ==
    /\ \A w \in Widgets : suppressKeyNavigation[w] \in {JSTrue, JSFalse}
    /\ (op = "onSuppressKeyNavigation" /\ evt.suppress # JSTrue) =>
         /\ suppressKeyNavigation[self] = JSFalse
         /\ Len(log) = 1
         /\ log[1].call = "onSuppressKeyNavigation"
    /\ \A w \in Containers :
         suppressKeyNavigation[w] # JSTrue =>
            \A e \in ContainerKeyEvents :
                /\ _onContainerKeydown(w, Ctx(e)).nav = navCalls + 1
                /\ _onContainerKeypress(w, Ctx(e)).nav = navCalls + 1

C11_Witness ==
    /\ op = "onSuppressKeyNavigation"
    /\ self = "outer"
    /\ evt.suppress = Num("1")
    /\ suppressKeyNavigation["outer"] = JSFalse
    /\ suppressKeyNavigation["inner"] = JSTrue

\* the callback the last handler has for its event, "none" when the key is not its own
Wanted(name, e) ==
    CASE name = "onKeyPress" /\ IsChord(e) -> "onEditClick"
      [] name = "onValueEntryKeyPress" /\ IsEscape(e) -> "onCancel"
      [] name = "onValueEntryKeyPress" /\ ~IsEscape(e) /\ IsEnter(e) -> "onSave"
      [] OTHER -> "none"

\* the last handler met its key and found no function to call for it
Unregistered ==
    /\ Wanted(op, evt) # "none"
    /\ ~Registered(self, Wanted(op, evt))

(***************************************************************************)
(* C12: when the callback for a matching event is absent or not a          *)
(* function (onEditClick for Ctrl+e, onCancel for Escape, onSave for       *)
(* Enter), the handler still stops the event, calls nothing else and       *)
(* leaves every suppression flag as it was.                                *)
(***************************************************************************)
C12_MissingCallbackIsNoOp ==
    /\ [](Unregistered =>
            /\ evt.stopped
            /\ Len(log) = 1
            /\ log[1].call = "event.stop")
    /\ [][Unregistered' => suppressKeyNavigation' = suppressKeyNavigation]_vars

C12_Witness ==
    /\ op = "onKeyPress"
    /\ self = "inner"
    /\ IsChord(evt)
    /\ Member(self, "onEditClick") = Str("edit")
    /\ evt.stopped
    /\ CallbackCalls(log) = {}
    /\ suppressKeyNavigation["inner"] = JSTrue

\* the widgets whose onSuppressKeyNavigation a log calls
Notified(l) == { l[i].on : i \in Calls(l, "onSuppressKeyNavigation") }

(***************************************************************************)
(* C13: each widget has a flag of its own: a call of                       *)
(* onSuppressKeyNavigation on one widget changes the flag of no other      *)
(* widget, be it called directly or for a bubbling request.                *)
(***************************************************************************)
C13_FlagPerInstance ==
    [][ /\ op' = "onSuppressKeyNavigation" =>
             /\ Notified(log') = {self'}
             /\ \A w \in Widgets \ {self'} :
                    suppressKeyNavigation'[w] = suppressKeyNavigation[w]
        /\ op' = "suppressContainerKeyboardNavigation" =>
             \A w \in Widgets \ Notified(log') :
                 suppressKeyNavigation'[w] = suppressKeyNavigation[w] ]_vars

C13_Witness ==
    /\ op = "onSuppressKeyNavigation"
    /\ self = "inner"
    /\ evt.suppress = JSTrue
    /\ suppressKeyNavigation =
         [w \in Widgets |-> IF w = "inner" THEN JSTrue ELSE JSFalse]

(***************************************************************************)
(* C14: onSuppressKeyNavigation neither stops nor cancels the notice it    *)
(* handles, so one request from a descendant is handled by every           *)
(* listening container above it, the nearest first, and leaves all of      *)
(* them with the same flag; an un-suppress request from inside the inner   *)
(* container re-enables the outer container as well.                       *)
(***************************************************************************)
C14_NoticeReachesEveryAncestor ==
    /\ op \in {"onSuppressKeyNavigation", "suppressContainerKeyboardNavigation"} =>
         /\ ~evt.stopped
         /\ ~evt.prevented
         /\ Calls(log, "event.stop") = {}
    /\ op = "suppressContainerKeyboardNavigation" =>
         /\ Notified(log) = Listeners \cap AncestorsOrSelf(StartNode)
         /\ Cardinality(Calls(log, "onSuppressKeyNavigation")) = Cardinality(Notified(log))
         /\ \A i, j \in Calls(log, "onSuppressKeyNavigation") :
                i < j => log[j].on \in AncestorsOrSelf(log[i].on)
         /\ \A v, w \in Notified(log) :
                suppressKeyNavigation[v] = suppressKeyNavigation[w]
         /\ ("inner" \in AncestorsOrSelf(StartNode) /\ args.suppress # JSTrue) =>
                /\ suppressKeyNavigation["outer"] = JSFalse
                /\ \A e \in ContainerKeyEvents :
                     _onContainerKeydown("outer", Ctx(e)).nav = navCalls + 1

C14_Witness ==
    /\ op = "suppressContainerKeyboardNavigation"
    /\ self = "editorB"
    /\ args = [suppress |-> JSFalse, node |-> NoNode]
    /\ Len(log) = 3
    /\ log[2].on = "inner"
    /\ log[3].on = "outer"
    /\ suppressKeyNavigation["inner"] = JSFalse
    /\ suppressKeyNavigation["outer"] = JSFalse
    /\ suppressKeyNavigation["sibling"] = JSTrue
    /\ outstanding = {"editorA"}

=============================================================================
